---- MODULE Spec2Model ----
(***************************************************************************)
(* puente: HTTP middleware for request logging and JWT identity            *)
(* extraction.  A request travels through a chain of middleware down to    *)
(* the user handler and the chain unwinds as each ServeHTTP returns.       *)
(*                                                                         *)
(* A context is the sequence of layers context.WithValue has put on the    *)
(* background context, oldest first.  A context value is a record          *)
(* [kind, val]: kind "string" for a Go string, "int" for any value of      *)
(* another dynamic type, "nil" for the nil interface a missed lookup       *)
(* returns.  A log entry is [req, level, msg, fields]; req tells which     *)
(* request's goroutine emitted it.                                         *)
(***************************************************************************)
EXTENDS Integers, Sequences, FiniteSets, TLC

\* ------------------------------------------------------------------ bounds
NumRequests == 2        \* request slots; Init decides which of them are served
MaxCtxLayers == 2       \* layers of an inbound context
MaxHandlerOps == 2      \* WriteHeader / Write calls of one handler run
ConcHandlerOps == 1     \* the same, of each of two handlers running at once

\* --------------------------------------------------------------- constants
StatusOK == 200

UserIDKey == [type |-> "contextKey", name |-> "user_id"]
RequestIDKey == [type |-> "contextKey", name |-> "request_id"]

\* ------------------------------------------------------------ input domains
Requests == 1..NumRequests
AppNames == {"test-app", "orders"}
StatusCodes == {201, 500}
Bodies == {"ok"}
Subjects == {"", "alice"}
Times == {0, 1}         \* readings of time.Now(), in seconds of the Unix epoch

Str(s) == [kind |-> "string", val |-> s]
NonStr(s) == [kind |-> "int", val |-> s]
Nil == [kind |-> "nil", val |-> ""]

\* The request lines served: a method and a url.URL.  Path is the decoded path,
\* RawPath the encoded path the parser keeps only when it differs from the
\* default encoding of Path.
RequestLines ==
    { [Method |-> "GET", URL |-> [Path |-> "/a b", RawPath |-> ""]],
      [Method |-> "POST", URL |-> [Path |-> "/a/b", RawPath |-> "/a%2Fb"]] }

\* What ExtractJWT may return: an error, or claims with a subject.
ExtractorResults ==
    { [err |-> TRUE, Sub |-> ""] } \cup { [err |-> FALSE, Sub |-> s] : s \in Subjects }

InboundLayers ==
    { [key |-> UserIDKey, val |-> Str("bob")],
      [key |-> UserIDKey, val |-> NonStr("123")],
      [key |-> RequestIDKey, val |-> Str("existing-request-id")],
      [key |-> RequestIDKey, val |-> NonStr("42")] }

\* The contexts a request may arrive with: up to MaxCtxLayers layers, none of
\* them layered twice.
InboundContexts ==
    { c \in UNION { [1..n -> InboundLayers] : n \in 0..MaxCtxLayers } :
        \A i, j \in DOMAIN c : i # j => c[i] # c[j] }

ShallowContexts ==
    { <<>> } \cup { <<l>> : l \in InboundLayers }

Chains ==
    { <<"Logging">>, <<"JWT">>, <<"Logging", "JWT">>, <<"JWT", "Logging">> }

\* ------------------------------------------------------------------ context
\* context.WithValue: a new context, the parent plus one layer.
WithValue(ctx, key, v) == Append(ctx, [key |-> key, val |-> v])

\* Context.Value: the most recently layered value of key, nil when none.
RECURSIVE Value(_, _)
Value(ctx, key) ==
    IF ctx = <<>> THEN Nil
    ELSE IF ctx[Len(ctx)].key = key THEN ctx[Len(ctx)].val
    ELSE Value(SubSeq(ctx, 1, Len(ctx) - 1), key)

\* Mutant of GetUserID: the type assertion's result is not looked at.
GetUserID_NoTypeCheck(ctx) ==
    LET v == Value(ctx, UserIDKey) IN
    IF v = Nil THEN [val |-> "", ok |-> FALSE] ELSE [val |-> v.val, ok |-> TRUE]

GetUserID(ctx) ==
    LET v == Value(ctx, UserIDKey) IN
    IF v = Nil THEN [val |-> "", ok |-> FALSE]
    ELSE IF v.kind = "string" THEN [val |-> v.val, ok |-> TRUE]
    ELSE [val |-> "", ok |-> FALSE]

GetRequestID(ctx) ==
    LET v == Value(ctx, RequestIDKey) IN
    IF v = Nil THEN [val |-> "", ok |-> FALSE]
    ELSE IF v.kind = "string" THEN [val |-> v.val, ok |-> TRUE]
    ELSE [val |-> "", ok |-> FALSE]

\* uuid.New().String(): the n-th id minted is unlike every other id.
generateRequestID(n) == "uuid-" \o ToString(n)

\* Time.UTC().Format(time.RFC3339) of a reading within the epoch's first seconds.
RFC3339(t) == "1970-01-01T00:00:0" \o ToString(t) \o "Z"

\* URL.EscapedPath: RawPath when the parser kept one, else the encoded Path.
PathEscape(p) == IF p = "/a b" THEN "/a%20b" ELSE p
EscapedPath(u) == IF u.RawPath # "" THEN u.RawPath ELSE PathEscape(u.Path)

\* -------------------------------------------------------------------- state
VARIABLES
    app,          \* Middleware.app, fixed by New
    served,       \* the request slots this run serves
    minted,       \* how many ids generateRequestID has produced
    log,          \* the entries the logger has received, in order
    pc,           \* per request: idle, call, extract, handler, return, checked, done, panicked
    chain,        \* per request: the middleware wrapped around the handler, outermost first
    line,         \* per request: its method and URL
    inCtx,        \* per request: the context the chain was called with
    callCtx,      \* per request: the context of the request handed to the next ServeHTTP
    frames,       \* per request: one frame per middleware entered, outermost first
    level,        \* per request: how many of its frames have not returned
    extracted,    \* per request: what each ExtractJWT call returned
    seen,         \* per request: the context of each handler invocation
    ops,          \* per request: WriteHeader / Write calls of the running handler
    issued,       \* per request: the calls the handler made on the writer it was given
    under,        \* per request: the calls that reached the underlying ResponseWriter
    mintedFor     \* per request: the ids generated for it

globals == <<app, served, minted, log>>
perReq ==
    <<pc, chain, line, inCtx, callCtx, frames, level, extracted, seen, ops, issued, under,
      mintedFor>>
vars == <<app, served, minted, log, pc, chain, line, inCtx, callCtx, frames, level,
          extracted, seen, ops, issued, under, mintedFor>>

\* A frame of a middleware closure: in is the context it was entered with, r the
\* context of its own request variable; requestID, statusCode (of its
\* responseWriter) and start are Logging's locals; now is the clock reading of
\* defaultLogFields and since the later one of time.Since (both start, until
\* they are read).
Frame(mw, in, r, requestID, statusCode, start) ==
    [mw |-> mw, in |-> in, r |-> r, requestID |-> requestID,
     statusCode |-> statusCode, start |-> start, now |-> start, since |-> start]

Entry(r, lvl, msg, fields) == [req |-> r, level |-> lvl, msg |-> msg, fields |-> fields]

\* What the next ServeHTTP call of request r enters.
NextMiddleware(r) ==
    IF Len(frames[r]) < Len(chain[r]) THEN chain[r][Len(frames[r]) + 1] ELSE "handler"

\* The state once New has built the Middleware, before the requests reqs arrive.
InitServing(reqs) ==
    /\ app \in AppNames
    /\ served = reqs
    /\ minted = 0
    /\ log = <<>>
    /\ pc = [r \in Requests |-> "idle"]
    /\ chain = [r \in Requests |-> <<>>]
    /\ line = [r \in Requests |-> [Method |-> "", URL |-> [Path |-> "", RawPath |-> ""]]]
    /\ inCtx = [r \in Requests |-> <<>>]
    /\ callCtx = [r \in Requests |-> <<>>]
    /\ frames = [r \in Requests |-> <<>>]
    /\ level = [r \in Requests |-> 0]
    /\ extracted = [r \in Requests |-> <<>>]
    /\ seen = [r \in Requests |-> <<>>]
    /\ ops = [r \in Requests |-> 0]
    /\ issued = [r \in Requests |-> <<>>]
    /\ under = [r \in Requests |-> <<>>]
    /\ mintedFor = [r \in Requests |-> <<>>]

Init == InitServing({1})

\* The server calls the outermost handler of one of chains with request r, whose
\* context is one of ctxs and whose request line is one of lines.
ArriveFrom(r, chains, ctxs, lines) ==
    /\ r \in served
    /\ pc[r] = "idle"
    /\ \E c \in chains, ctx \in ctxs, l \in lines :
        /\ chain' = [chain EXCEPT ![r] = c]
        /\ inCtx' = [inCtx EXCEPT ![r] = ctx]
        /\ callCtx' = [callCtx EXCEPT ![r] = ctx]
        /\ line' = [line EXCEPT ![r] = l]
    /\ pc' = [pc EXCEPT ![r] = "call"]
    /\ UNCHANGED <<globals, frames, level, extracted, seen, ops, issued, under, mintedFor>>

\* Arrivals of any request line through any chain.
ArriveWith(r, ctxs) == ArriveFrom(r, Chains, ctxs, RequestLines)

Arrive(r) == ArriveWith(r, InboundContexts)

\* Arrivals with an inbound context of at most one layer.
ArriveShallow(r) == ArriveWith(r, ShallowContexts)

\* Mutant of ResolveRequestID: an id is generated for every request.
ResolveRequestID_AlwaysNew(ctx, n) == Str(generateRequestID(n))

\* Logging, lines 44-46: the request id of the inbound context, or the n-th
\* generated id when the context holds nil under RequestIDKey.
ResolveRequestID(ctx, n) ==
    IF Value(ctx, RequestIDKey) = Nil
    THEN Str(generateRequestID(n))
    ELSE Value(ctx, RequestIDKey)

\* Mutant of LayerRequestID: the generated id is never put into the context.
LayerRequestID_Never(ctx, requestID) == ctx

\* Mutant of LayerRequestID: the resolved id is layered even when the context
\* already carries one.
LayerRequestID_Always(ctx, requestID) == WithValue(ctx, RequestIDKey, requestID)

\* Logging, lines 45-50: the context of r after the request-id block.
LayerRequestID(ctx, requestID) ==
    IF Value(ctx, RequestIDKey) = Nil
    THEN WithValue(ctx, RequestIDKey, requestID)
    ELSE ctx

\* Logging up to its call of next.ServeHTTP(wrapped, r); start is the clock as
\* line 41 reads it.
LoggingEnter(r) ==
    /\ pc[r] = "call"
    /\ NextMiddleware(r) = "Logging"
    /\ \E start \in Times :
        LET ctx == callCtx[r]
            fresh == Value(ctx, RequestIDKey) = Nil
            requestID == ResolveRequestID(ctx, minted + 1)
            ctx2 == LayerRequestID(ctx, requestID)
        IN  /\ frames' = [frames EXCEPT ![r] =
                    Append(@, Frame("Logging", ctx, ctx2, requestID, StatusOK, start))]
            /\ callCtx' = [callCtx EXCEPT ![r] = ctx2]
            /\ minted' = IF fresh THEN minted + 1 ELSE minted
            /\ mintedFor' = [mintedFor EXCEPT ![r] =
                    IF fresh THEN Append(@, requestID) ELSE @]
    /\ level' = [level EXCEPT ![r] = Len(frames'[r])]
    /\ UNCHANGED <<app, served, log, pc, chain, line, inCtx, extracted, seen, ops, issued, under>>

\* JWTMiddleware, line 82: the call of m.extractor.ExtractJWT(r).
JWTCallExtractor(r) ==
    /\ pc[r] = "call"
    /\ NextMiddleware(r) = "JWT"
    /\ frames' = [frames EXCEPT ![r] =
            Append(@, Frame("JWT", callCtx[r], callCtx[r], Nil, 0, 0))]
    /\ level' = [level EXCEPT ![r] = Len(frames'[r])]
    /\ pc' = [pc EXCEPT ![r] = "extract"]
    /\ UNCHANGED <<globals, chain, line, inCtx, callCtx, extracted, seen, ops, issued, under,
                   mintedFor>>

\* Mutant of JWTEntry: the success entry is logged whatever the extractor returned.
JWTEntry_AlwaysInfo(r, res) ==
    Entry(r, "info", "User ID found in JWT", [user_id |-> res.Sub])

\* JWTMiddleware, lines 83-89: the entry logged for an extractor result.
JWTEntry(r, res) ==
    IF res.err
    THEN Entry(r, "warning", "Failed to extract JWT claims", <<>>)
    ELSE Entry(r, "info", "User ID found in JWT", [user_id |-> res.Sub])

\* Mutant of JWTContext: an empty subject is treated as no identity.
JWTContext_SkipEmpty(ctx, res) ==
    IF res.err \/ res.Sub = "" THEN ctx ELSE WithValue(ctx, UserIDKey, Str(res.Sub))

\* Mutant of JWTContext: the claims are layered without looking at the error.
JWTContext_IgnoreErr(ctx, res) == WithValue(ctx, UserIDKey, Str(res.Sub))

\* Mutant of JWTContext: the identity is logged but never layered.
JWTContext_NotLayered(ctx, res) == ctx

\* JWTMiddleware, lines 85 and 90-91: the context of the request passed on.
JWTContext(ctx, res) ==
    IF res.err THEN ctx ELSE WithValue(ctx, UserIDKey, Str(res.Sub))

\* Mutant of AfterExtract: a failed extraction ends the request without calling next.
AfterExtract_AbortOnError(res) == IF res.err THEN "return" ELSE "call"

\* JWTMiddleware, lines 83-91: on either branch the middleware goes on to call
\* next.ServeHTTP.
AfterExtract(res) == "call"

\* JWTMiddleware from the return of ExtractJWT to its call of next.ServeHTTP.
JWTAfterExtract(r) ==
    /\ pc[r] = "extract"
    /\ \E res \in ExtractorResults :
        /\ extracted' = [extracted EXCEPT ![r] = Append(@, res)]
        /\ log' = Append(log, JWTEntry(r, res))
        /\ callCtx' = [callCtx EXCEPT ![r] = JWTContext(frames[r][level[r]].r, res)]
        /\ pc' = [pc EXCEPT ![r] = AfterExtract(res)]
    /\ UNCHANGED <<app, served, minted, chain, line, inCtx, frames, level, seen, ops, issued,
                   under, mintedFor>>

\* The wrapped handler is entered with the request the innermost middleware built.
HandlerStart(r) ==
    /\ pc[r] = "call"
    /\ NextMiddleware(r) = "handler"
    /\ seen' = [seen EXCEPT ![r] = Append(@, callCtx[r])]
    /\ pc' = [pc EXCEPT ![r] = "handler"]
    /\ UNCHANGED <<globals, chain, line, inCtx, callCtx, frames, level, extracted, ops, issued,
                   under, mintedFor>>

\* Mutant of WriteHeader: the code is forwarded but not kept.
WriteHeader_NotKept(fs, code) == fs

\* Mutant of WriteHeader: only the first code written is kept.
WriteHeader_FirstWins(fs, code) ==
    [i \in 1..Len(fs) |->
        IF fs[i].mw = "Logging" /\ fs[i].statusCode = StatusOK
        THEN [fs[i] EXCEPT !.statusCode = code]
        ELSE fs[i]]

\* responseWriter.WriteHeader on every responseWriter between the handler and
\* the underlying writer: each keeps the code and forwards it.
WriteHeader(fs, code) ==
    [i \in 1..Len(fs) |->
        IF fs[i].mw = "Logging" THEN [fs[i] EXCEPT !.statusCode = code] ELSE fs[i]]

\* A call WriteHeader(code) as the writers record it.
HeaderCall(code) == [op |-> "WriteHeader", code |-> code, data |-> ""]

\* A call Write(data) as the writers record it.
WriteCall(data) == [op |-> "Write", code |-> 0, data |-> data]

\* The handler's writer is a responseWriter: some Logging wraps the handler.
Wrapped(fs) == \E i \in 1..Len(fs) : fs[i].mw = "Logging"

\* Mutant of ForwardHeader: the underlying writer is not told the code.
ForwardHeader_Dropped(u, code) == u

\* responseWriter.WriteHeader, line 23: the code goes on to the underlying writer.
ForwardHeader(u, code) == Append(u, HeaderCall(code))

\* The handler calls w.WriteHeader(code).
HandlerWriteHeader(r) ==
    /\ pc[r] = "handler"
    /\ ops[r] < MaxHandlerOps
    /\ \E code \in StatusCodes :
        /\ frames' = [frames EXCEPT ![r] = WriteHeader(@, code)]
        /\ under' = [under EXCEPT ![r] =
                IF Wrapped(frames[r]) THEN ForwardHeader(@, code)
                ELSE Append(@, HeaderCall(code))]
        /\ issued' = [issued EXCEPT ![r] = Append(@, HeaderCall(code))]
    /\ ops' = [ops EXCEPT ![r] = @ + 1]
    /\ UNCHANGED <<globals, pc, chain, line, inCtx, callCtx, level, extracted, seen,
                   mintedFor>>

\* Mutant of Write: a Write also records the implicit 200 of the first write.
Write_ImplicitHeader(fs, data) == WriteHeader(fs, StatusOK)

\* responseWriter has no Write of its own: the method is the embedded
\* ResponseWriter's, and no responseWriter field changes.
Write(fs, data) == fs

\* The embedded ResponseWriter's Write: the bytes go to the underlying writer.
ForwardWrite(u, data) == Append(u, WriteCall(data))

\* The handler calls w.Write(data).
HandlerWrite(r) ==
    /\ pc[r] = "handler"
    /\ ops[r] < MaxHandlerOps
    /\ \E data \in Bodies :
        /\ frames' = [frames EXCEPT ![r] = Write(@, data)]
        /\ under' = [under EXCEPT ![r] =
                IF Wrapped(frames[r]) THEN ForwardWrite(@, data)
                ELSE Append(@, WriteCall(data))]
        /\ issued' = [issued EXCEPT ![r] = Append(@, WriteCall(data))]
    /\ ops' = [ops EXCEPT ![r] = @ + 1]
    /\ UNCHANGED <<globals, pc, chain, line, inCtx, callCtx, level, extracted,
                   seen, mintedFor>>

HandlerReturn(r) ==
    /\ pc[r] = "handler"
    /\ pc' = [pc EXCEPT ![r] = "return"]
    /\ UNCHANGED <<globals, chain, line, inCtx, callCtx, frames, level, extracted, seen,
                   ops, issued, under, mintedFor>>

\* Mutant of Unwind: Logging recovers the panic in a deferred function and
\* returns to its caller as if the handler had returned.
Unwind_Recovered(r) == [pc |-> "done", level |-> 0]

\* Where a panic of the handler leaves request r: neither Logging nor
\* JWTMiddleware defers or recovers, so every frame is abandoned and the panic
\* reaches the caller of the chain.
Unwind(r) == [pc |-> "panicked", level |-> 0]

\* A panic of the handler.
HandlerPanic(r) ==
    /\ pc[r] = "handler"
    /\ pc' = [pc EXCEPT ![r] = Unwind(r).pc]
    /\ level' = [level EXCEPT ![r] = Unwind(r).level]
    /\ UNCHANGED <<globals, chain, line, inCtx, callCtx, frames, extracted, seen, ops, issued,
                   under, mintedFor>>

\* The pc of r once the frame at its current level has returned.
AfterReturn(r) == IF level[r] = 1 THEN "done" ELSE "return"

\* JWTMiddleware returns when next.ServeHTTP returns.
JWTReturn(r) ==
    /\ pc[r] = "return"
    /\ level[r] > 0
    /\ frames[r][level[r]].mw = "JWT"
    /\ level' = [level EXCEPT ![r] = @ - 1]
    /\ pc' = [pc EXCEPT ![r] = AfterReturn(r)]
    /\ UNCHANGED <<globals, chain, line, inCtx, callCtx, frames, extracted, seen, ops, issued,
                   under, mintedFor>>

\* Mutant of LogFields: the fields map is shared by the requests in flight, and
\* method and path are those of the latest of them.
LogFields_SharedMap(f, appName, l, now, since) ==
    LET q == CHOOSE x \in Requests :
                 /\ pc[x] # "idle"
                 /\ \A p \in Requests : pc[p] # "idle" => p <= x
    IN  [app |-> appName, timestamp |-> RFC3339(now), request_id |-> f.requestID,
         status |-> f.statusCode, method |-> line[q].Method,
         path |-> EscapedPath(line[q].URL), duration |-> since - f.start]

\* Logging, lines 57-62: the fields shared by the entries of one request. now is
\* the clock as defaultLogFields reads it, since as time.Since reads it.
LogFields(f, appName, l, now, since) ==
    [app |-> appName,
     timestamp |-> RFC3339(now),
     request_id |-> f.requestID,
     status |-> f.statusCode,
     method |-> l.Method,
     path |-> EscapedPath(l.URL),
     duration |-> since - f.start]

\* Logging, line 70: logFields["user_id"] = userId.
WithUserID(fields, userId) ==
    [k \in DOMAIN fields \cup {"user_id"} |->
        IF k = "user_id" THEN userId ELSE fields[k]]

\* Logging, line 67: the warning, with the shared fields.
WarnEntry(r, f, appName, l) ==
    Entry(r, "warning", "Failed to get user ID from context", LogFields(f, appName, l, f.now, f.since))

\* Logging, lines 70-71: the completion entry, the shared fields plus user_id.
DoneEntry(r, f, appName, l) ==
    Entry(r, "info", "Request completed",
          WithUserID(LogFields(f, appName, l, f.now, f.since), GetUserID(f.r).val))

\* Mutant of LoggingWarning: the warning is decided by an empty user id instead
\* of the present flag.
LoggingWarning_WarnOnEmpty(r, f, appName, l) ==
    IF GetUserID(f.r).val # "" THEN <<>> ELSE <<WarnEntry(r, f, appName, l)>>

\* Mutant of LoggingWarning: a missing identity is not reported.
LoggingWarning_Never(r, f, appName, l) == <<>>

\* Logging, lines 65-68: what the logger is given by the identity check.
LoggingWarning(r, f, appName, l) ==
    IF GetUserID(f.r).ok THEN <<>> ELSE <<WarnEntry(r, f, appName, l)>>

\* Mutant of LoggingCompletion: Logging returns after the missing-identity warning.
LoggingCompletion_NotAfterWarn(r, f, appName, l) ==
    IF GetUserID(f.r).ok THEN <<DoneEntry(r, f, appName, l)>> ELSE <<>>

\* Mutant of LoggingCompletion: a missing identity is reported once more after
\* the completion entry.
LoggingCompletion_ThenWarn(r, f, appName, l) ==
    IF GetUserID(f.r).ok THEN <<DoneEntry(r, f, appName, l)>>
    ELSE <<DoneEntry(r, f, appName, l), WarnEntry(r, f, appName, l)>>

\* Logging, lines 70-71: what the logger is given last.
LoggingCompletion(r, f, appName, l) == <<DoneEntry(r, f, appName, l)>>

\* Logging from the return of next.ServeHTTP through its identity check, lines
\* 56-68: the clock is read twice, for the timestamp and then for the duration,
\* the fields are built, and the warning, if any, is one call of the logger.
LoggingAfterNext(r) ==
    /\ pc[r] = "return"
    /\ level[r] > 0
    /\ frames[r][level[r]].mw = "Logging"
    /\ \E now \in Times, since \in Times :
        /\ frames[r][level[r]].start <= now
        /\ now <= since
        /\ LET f == [frames[r][level[r]] EXCEPT !.now = now, !.since = since]
           IN  /\ frames' = [frames EXCEPT ![r][level[r]] = f]
               /\ log' = log \o LoggingWarning(r, f, app, line[r])
    /\ pc' = [pc EXCEPT ![r] = "checked"]
    /\ UNCHANGED <<app, served, minted, chain, line, inCtx, callCtx, level, extracted,
                   seen, ops, issued, under, mintedFor>>

\* Logging, lines 70-71 and its return: the completion entry is a second call
\* of the logger.
LoggingExit(r) ==
    /\ pc[r] = "checked"
    /\ log' = log \o LoggingCompletion(r, frames[r][level[r]], app, line[r])
    /\ level' = [level EXCEPT ![r] = @ - 1]
    /\ pc' = [pc EXCEPT ![r] = AfterReturn(r)]
    /\ UNCHANGED <<app, served, minted, chain, line, inCtx, callCtx, frames, extracted,
                   seen, ops, issued, under, mintedFor>>

Next ==
    \E r \in Requests :
        \/ Arrive(r)
        \/ LoggingEnter(r)
        \/ JWTCallExtractor(r)
        \/ JWTAfterExtract(r)
        \/ HandlerStart(r)
        \/ HandlerWriteHeader(r)
        \/ HandlerWrite(r)
        \/ HandlerReturn(r)
        \/ HandlerPanic(r)
        \/ JWTReturn(r)
        \/ LoggingAfterNext(r)
        \/ LoggingExit(r)

Spec == Init /\ [][Next]_vars

\* The goroutine serving a request keeps running the middleware's own code; the
\* extractor and the handler are foreign code and may never return.
MiddlewareStep(r) ==
    \/ LoggingEnter(r) \/ JWTCallExtractor(r) \/ HandlerStart(r) \/ JWTReturn(r)
    \/ LoggingAfterNext(r) \/ LoggingExit(r)

\* Progress does not depend on what the inbound context holds: it is checked
\* over the requests whose inbound context has at most one layer.
FairNext ==
    \E r \in Requests :
        \/ ArriveShallow(r)
        \/ LoggingEnter(r)
        \/ JWTCallExtractor(r)
        \/ JWTAfterExtract(r)
        \/ HandlerStart(r)
        \/ HandlerWriteHeader(r)
        \/ HandlerWrite(r)
        \/ HandlerReturn(r)
        \/ HandlerPanic(r)
        \/ JWTReturn(r)
        \/ LoggingAfterNext(r)
        \/ LoggingExit(r)

FairSpec ==
    Init /\ [][FairNext]_vars /\ \A r \in Requests : WF_vars(MiddlewareStep(r))

\* Two requests in flight at once on one Middleware, their goroutines
\* interleaved step by step. The first is a GET through Logging, the second a
\* POST through JWT(Logging) that may bring its own request id; each handler
\* makes at most ConcHandlerOps calls on its writer.
ConcRequests == {1, 2}

ConcChains(r) == IF r = 1 THEN {<<"Logging">>} ELSE {<<"JWT", "Logging">>}

ConcContexts(r) ==
    IF r = 1 THEN {<<>>}
    ELSE {<<>>, <<[key |-> RequestIDKey, val |-> Str("existing-request-id")]>>}

ConcLines(r) == { l \in RequestLines : l.Method = (IF r = 1 THEN "GET" ELSE "POST") }

ConcInit == InitServing(ConcRequests) /\ app = "test-app"

ConcArrive(r) == ArriveFrom(r, ConcChains(r), ConcContexts(r), ConcLines(r))

ConcNext ==
    \E r \in Requests :
        \/ ConcArrive(r)
        \/ LoggingEnter(r)
        \/ JWTCallExtractor(r)
        \/ JWTAfterExtract(r)
        \/ HandlerStart(r)
        \/ (ops[r] < ConcHandlerOps /\ HandlerWriteHeader(r))
        \/ (ops[r] < ConcHandlerOps /\ HandlerWrite(r))
        \/ HandlerReturn(r)
        \/ HandlerPanic(r)
        \/ JWTReturn(r)
        \/ LoggingAfterNext(r)
        \/ LoggingExit(r)

ConcSpec == ConcInit /\ [][ConcNext]_vars

\* ------------------------------------------------- JWTAPIGatewayMiddleware
\* The identity key of the revision that holds JWTAPIGatewayMiddleware: the same
\* type and string as UserIDKey.
userIDKey == [type |-> "contextKey", name |-> "user_id"]

\* The key JWTAPIGatewayMiddleware looks up: the untyped string constant.
requestContext == [type |-> "string", name |-> "requestContext"]

\* The key the test stores its payloads under: a contextKey, which no string
\* key equals.
requestContextKey == [type |-> "contextKey", name |-> "requestContext"]

\* An APIGatewayV2AuthorizerContext whose Authorizer.JWT.Claims.Sub is sub.
APIGatewayV2AuthorizerContext(sub) ==
    [kind |-> "APIGatewayV2AuthorizerContext", val |-> sub]

GatewayLayers ==
    { [key |-> requestContext, val |-> APIGatewayV2AuthorizerContext(s)] : s \in Subjects }
        \cup { [key |-> requestContext, val |-> Str("invalid-claims")],
               [key |-> requestContextKey, val |-> APIGatewayV2AuthorizerContext("alice")],
               [key |-> UserIDKey, val |-> Str("bob")] }

GatewayContexts ==
    UNION { [1..n -> GatewayLayers] : n \in 0..MaxCtxLayers }

\* Mutant of JWTAPIGatewayMiddleware: the payload is looked up under the
\* contextKey of the test.
JWTAPIGatewayMiddleware_TypedKey(ctx) ==
    LET claims == Value(ctx, requestContextKey) IN
    IF claims.kind = "APIGatewayV2AuthorizerContext"
    THEN WithValue(ctx, userIDKey, Str(claims.val))
    ELSE ctx

\* JWTAPIGatewayMiddleware, lines 31-37: the context of the request passed to
\* next.ServeHTTP.
JWTAPIGatewayMiddleware(ctx) ==
    LET claims == Value(ctx, requestContext) IN
    IF claims.kind = "APIGatewayV2AuthorizerContext"
    THEN WithValue(ctx, userIDKey, Str(claims.val))
    ELSE ctx

GatewayArrive(r) == ArriveFrom(r, {<<"APIGateway">>}, GatewayContexts, RequestLines)

\* JWTAPIGatewayMiddleware up to its call of next.ServeHTTP.
APIGatewayEnter(r) ==
    /\ pc[r] = "call"
    /\ NextMiddleware(r) = "APIGateway"
    /\ frames' = [frames EXCEPT ![r] =
            Append(@, Frame("APIGateway", callCtx[r], callCtx[r], Nil, 0, 0))]
    /\ level' = [level EXCEPT ![r] = Len(frames'[r])]
    /\ callCtx' = [callCtx EXCEPT ![r] = JWTAPIGatewayMiddleware(@)]
    /\ UNCHANGED <<globals, pc, chain, line, inCtx, extracted, seen, ops, issued, under,
                   mintedFor>>

\* JWTAPIGatewayMiddleware returns when next.ServeHTTP returns.
APIGatewayReturn(r) ==
    /\ pc[r] = "return"
    /\ level[r] > 0
    /\ frames[r][level[r]].mw = "APIGateway"
    /\ level' = [level EXCEPT ![r] = @ - 1]
    /\ pc' = [pc EXCEPT ![r] = AfterReturn(r)]
    /\ UNCHANGED <<globals, chain, line, inCtx, callCtx, frames, extracted, seen, ops, issued,
                   under, mintedFor>>

GatewayNext ==
    \E r \in Requests :
        \/ GatewayArrive(r)
        \/ APIGatewayEnter(r)
        \/ HandlerStart(r)
        \/ HandlerWriteHeader(r)
        \/ HandlerWrite(r)
        \/ HandlerReturn(r)
        \/ HandlerPanic(r)
        \/ APIGatewayReturn(r)

GatewaySpec == Init /\ [][GatewayNext]_vars

\* ------------------------------------------------------------------ claims
\* The positions in the log of the entries request r logged with message msg.
EntriesOf(r, msg) == { i \in 1..Len(log) : log[i].req = r /\ log[i].msg = msg }

\* The positions of r's frames of middleware mw.
FramesOf(r, mw) == { i \in 1..Len(frames[r]) : frames[r][i].mw = mw }

\* Frame i of r has called next.ServeHTTP: the frame below it, or the handler, exists.
CalledNext(r, i) ==
    i <= Len(frames[r]) /\ (i < Len(frames[r]) \/ (i = Len(chain[r]) /\ seen[r] # <<>>))

\* The context frame i of r handed to next.ServeHTTP.
NextCtx(r, i) == IF i < Len(frames[r]) THEN frames[r][i + 1].in ELSE seen[r][1]

\* Frame i of r has returned normally.
Returned(r, i) == pc[r] \in {"return", "checked", "done"} /\ level[r] < i

\* C1: when Logging is entered with a context holding nothing under
\* RequestIDKey, exactly one id is generated for the request, Logging's request
\* context is the inbound one plus that id, the handler reads that id with
\* GetRequestID (present), and the "Request completed" entry carries it.
C1_MintedIdReachesHandlerAndLog ==
    \A r \in Requests : \A i \in FramesOf(r, "Logging") :
        Value(frames[r][i].in, RequestIDKey) = Nil =>
            /\ Len(mintedFor[r]) = 1
            /\ mintedFor[r][1].kind = "string"
            /\ frames[r][i].r = WithValue(frames[r][i].in, RequestIDKey, mintedFor[r][1])
            /\ seen[r] # <<>> =>
                   GetRequestID(seen[r][1]) = [val |-> mintedFor[r][1].val, ok |-> TRUE]
            /\ Returned(r, i) =>
                   /\ Cardinality(EntriesOf(r, "Request completed")) = 1
                   /\ \A k \in EntriesOf(r, "Request completed") :
                          log[k].fields.request_id = mintedFor[r][1]

C1_Witness ==
    /\ pc[1] = "done"
    /\ chain[1] = <<"Logging">>
    /\ Value(inCtx[1], RequestIDKey) = Nil
    /\ GetRequestID(seen[1][1]) = [val |-> "uuid-1", ok |-> TRUE]
    /\ \E k \in EntriesOf(1, "Request completed") : log[k].fields.request_id = Str("uuid-1")

\* C2: when Logging is entered with a context carrying the request id X, no id
\* is generated, the handler reads (X, true) and the "Request completed" entry
\* carries X.
C2_ExistingIdReused ==
    \A r \in Requests : \A i \in FramesOf(r, "Logging") :
        GetRequestID(frames[r][i].in).ok =>
            /\ mintedFor[r] = <<>>
            /\ seen[r] # <<>> => GetRequestID(seen[r][1]) = GetRequestID(frames[r][i].in)
            /\ Returned(r, i) =>
                   /\ Cardinality(EntriesOf(r, "Request completed")) = 1
                   /\ \A k \in EntriesOf(r, "Request completed") :
                          log[k].fields.request_id = Str(GetRequestID(frames[r][i].in).val)

C2_Witness ==
    /\ pc[1] = "done"
    /\ "Logging" \in { chain[1][i] : i \in 1..Len(chain[1]) }
    /\ GetRequestID(inCtx[1]) = [val |-> "existing-request-id", ok |-> TRUE]
    /\ GetRequestID(seen[1][1]) = [val |-> "existing-request-id", ok |-> TRUE]
    /\ \E k \in EntriesOf(1, "Request completed") :
           log[k].fields.request_id = Str("existing-request-id")

\* The chain of r is Logging(JWT(handler)).
LoggingJWT(r) == chain[r] = <<"Logging", "JWT">>

\* C3 as claimed: in Logging(JWT(handler)), once the extractor has returned
\* claims with subject S the handler reads GetUserID = (S, true), and the
\* "Request completed" entry of the finished request has user_id = S.
C3_LoggerSeesExtractedIdentity ==
    \A r \in Requests :
        (LoggingJWT(r) /\ extracted[r] # <<>> /\ ~extracted[r][1].err) =>
            /\ seen[r] # <<>> =>
                   GetUserID(seen[r][1]) = [val |-> extracted[r][1].Sub, ok |-> TRUE]
            /\ pc[r] = "done" =>
                   \A k \in EntriesOf(r, "Request completed") :
                       log[k].fields.user_id = extracted[r][1].Sub

\* C4: when the extractor returns claims with subject S and no error (S may be
\* empty), the identity middleware calls next with a context in which GetUserID
\* is exactly (S, true).
C4_SubjectPlacedInContext ==
    \A r \in Requests : \A i \in FramesOf(r, "JWT") :
        (CalledNext(r, i) /\ ~extracted[r][1].err) =>
            GetUserID(NextCtx(r, i)) = [val |-> extracted[r][1].Sub, ok |-> TRUE]

C4_Witness ==
    /\ chain[1] = <<"JWT">>
    /\ pc[1] = "handler"
    /\ extracted[1] = <<[err |-> FALSE, Sub |-> ""]>>
    /\ GetUserID(inCtx[1]) = [val |-> "bob", ok |-> TRUE]
    /\ GetUserID(seen[1][1]) = [val |-> "", ok |-> TRUE]

\* C5: when the extractor returns an error, the identity middleware calls next
\* with the context it was entered with, unmodified; an inbound context without
\* identity gives the handler present=false.
C5_ErrorLeavesContextUnmodified ==
    \A r \in Requests : \A i \in FramesOf(r, "JWT") :
        (CalledNext(r, i) /\ extracted[r][1].err) =>
            /\ NextCtx(r, i) = frames[r][i].in
            /\ ~GetUserID(frames[r][i].in).ok => ~GetUserID(NextCtx(r, i)).ok

C5_Witness ==
    /\ chain[1] = <<"JWT">>
    /\ pc[1] = "handler"
    /\ extracted[1] = <<[err |-> TRUE, Sub |-> ""]>>
    /\ Value(inCtx[1], UserIDKey) = Nil
    /\ seen[1] = <<inCtx[1]>>
    /\ GetUserID(seen[1][1]) = [val |-> "", ok |-> FALSE]

\* The identity middleware of r holds the control with the extractor's answer
\* in hand: it is about to call next, or next has just returned to it.
JWTHasControl(r) ==
    /\ pc[r] \in {"call", "return"}
    /\ level[r] > 0
    /\ level[r] = Len(frames[r])
    /\ frames[r][level[r]].mw = "JWT"

\* C6: the identity middleware calls the extractor once and then next once,
\* whether extraction succeeds or fails: never more than one call of either,
\* next is called only after the extractor has answered, and by the time the
\* middleware returns both calls have been made exactly once.  It never keeps
\* the control: once the extractor has returned it calls next, and once next has
\* returned it returns.
C6_ExtractOnceCallNextOnceReturn ==
    /\ [](\A r \in Requests : \A i \in FramesOf(r, "JWT") :
            /\ Len(extracted[r]) <= 1
            /\ Len(seen[r]) <= 1
            /\ CalledNext(r, i) => Len(extracted[r]) = 1
            /\ Returned(r, i) => (Len(extracted[r]) = 1 /\ CalledNext(r, i)))
    /\ \A r \in Requests : []<>(~JWTHasControl(r))

C6_Witness ==
    /\ chain[1] = <<"JWT">>
    /\ pc[1] = "done"
    /\ extracted[1] = <<[err |-> TRUE, Sub |-> ""]>>
    /\ Len(seen[1]) = 1

\* The entries of r logged by the identity middleware.
JWTEntriesOf(r) ==
    EntriesOf(r, "Failed to extract JWT claims") \cup EntriesOf(r, "User ID found in JWT")

\* C7: one invocation of the identity middleware logs exactly one entry: none
\* before the extractor has answered, then the warning "Failed to extract JWT
\* claims" if the extractor returned an error and otherwise the info entry "User
\* ID found in JWT" with user_id the extracted subject.
C7_OneEntryWarningXorInfo ==
    \A r \in Requests :
        /\ Cardinality(JWTEntriesOf(r)) = Len(extracted[r])
        /\ \A k \in JWTEntriesOf(r) :
               IF extracted[r][1].err
               THEN /\ log[k].level = "warning"
                    /\ log[k].msg = "Failed to extract JWT claims"
               ELSE /\ log[k].level = "info"
                    /\ log[k].msg = "User ID found in JWT"
                    /\ log[k].fields.user_id = extracted[r][1].Sub

C7_Witness ==
    /\ pc[1] = "done"
    /\ extracted[1] = <<[err |-> TRUE, Sub |-> ""]>>
    /\ \E k \in JWTEntriesOf(1) : log[k].level = "warning"
    /\ Cardinality(JWTEntriesOf(1)) = 1

\* C8: when the handler wrapped by Logging has returned and Logging has
\* returned, exactly one entry "Request completed" has been logged for the
\* request, at info level, with identity present or absent and whatever status
\* the handler wrote; none is logged before the handler returns.
C8_OneCompletionEntry ==
    \A r \in Requests :
        /\ \A k \in EntriesOf(r, "Request completed") : log[k].level = "info"
        /\ \A i \in FramesOf(r, "Logging") :
               /\ Returned(r, i) => Cardinality(EntriesOf(r, "Request completed")) = 1
               /\ level[r] >= i => EntriesOf(r, "Request completed") = {}

C8_Witness ==
    /\ pc[1] = "done"
    /\ chain[1] = <<"Logging">>
    /\ ~GetUserID(seen[1][1]).ok
    /\ frames[1][1].statusCode = 500
    /\ Cardinality(EntriesOf(1, "Request completed")) = 1

\* C9: once Logging has returned, the warning "Failed to get user ID from
\* context" has been logged exactly when GetUserID on Logging's request context
\* reports present=false, and then the "Request completed" entry follows it
\* with an empty user_id.
C9_WarningIffIdentityAbsent ==
    \A r \in Requests : \A i \in FramesOf(r, "Logging") :
        Returned(r, i) =>
            LET warns == EntriesOf(r, "Failed to get user ID from context")
                dones == EntriesOf(r, "Request completed")
            IN  /\ (warns # {}) <=> ~GetUserID(frames[r][i].r).ok
                /\ warns # {} =>
                       /\ Cardinality(warns) = 1
                       /\ \A w \in warns : log[w].level = "warning"
                       /\ dones # {}
                       /\ \A w \in warns : \A d \in dones :
                              w < d /\ log[d].fields.user_id = ""

C9_Witness ==
    /\ pc[1] = "done"
    /\ chain[1] = <<"Logging">>
    /\ Value(inCtx[1], UserIDKey) = NonStr("123")
    /\ EntriesOf(1, "Failed to get user ID from context") # {}
    /\ \E d \in EntriesOf(1, "Request completed") : log[d].fields.user_id = ""

\* The code of the last WriteHeader call that reached the underlying writer,
\* 200 when there was none.
LastWrittenStatus(u) ==
    LET hs == { i \in 1..Len(u) : u[i].op = "WriteHeader" }
    IN  IF hs = {} THEN StatusOK
        ELSE u[CHOOSE i \in hs : \A j \in hs : j <= i].code

\* C10: the "Request completed" entry has status the code the handler last
\* passed to WriteHeader (200 if it never called it), method the request's
\* method, path the request's escaped path and app the Middleware's app name.
C10_CompletionFields ==
    \A r \in Requests : \A k \in EntriesOf(r, "Request completed") :
        /\ log[k].fields.status = LastWrittenStatus(under[r])
        /\ log[k].fields.method = line[r].Method
        /\ log[k].fields.path = (IF line[r].Method = "GET" THEN "/a%20b" ELSE "/a%2Fb")
        /\ log[k].fields.app = app

C10_Witness ==
    /\ pc[1] = "done"
    /\ app = "orders"
    /\ line[1].Method = "GET"
    /\ Len(under[1]) = 2
    /\ under[1][1] = [op |-> "WriteHeader", code |-> 201, data |-> ""]
    /\ under[1][2] = [op |-> "WriteHeader", code |-> 500, data |-> ""]
    /\ \E k \in EntriesOf(1, "Request completed") :
           /\ log[k].fields.status = 500
           /\ log[k].fields.path = "/a%20b"
           /\ log[k].fields.app = "orders"

\* The WriteHeader calls among the calls u, in order.
HeaderCalls(u) == SelectSeq(u, LAMBDA c : c.op = "WriteHeader")

\* C11: while and after the handler uses a Response Observer, the observer's
\* status is the code of the handler's most recent WriteHeader call, 200 when it
\* made none, whatever Write calls came between; and the underlying writer has
\* received every WriteHeader call with its code, in order.
C11_ObservedStatusIsLastWritten ==
    \A r \in Requests : \A i \in FramesOf(r, "Logging") :
        /\ frames[r][i].statusCode = LastWrittenStatus(issued[r])
        /\ HeaderCalls(under[r]) = HeaderCalls(issued[r])

C11_Witness ==
    /\ chain[1] = <<"Logging">>
    /\ pc[1] = "handler"
    /\ issued[1] = <<HeaderCall(201), HeaderCall(500)>>
    /\ frames[1][1].statusCode = 500
    /\ under[1] = <<HeaderCall(201), HeaderCall(500)>>

\* C12: a Write on the Response Observer hands the same bytes to the underlying
\* writer and leaves the observed status as it was, with or without a
\* WriteHeader before it.
C12_WritePassesThrough ==
    [][\A r \in Requests :
          (/\ Len(issued'[r]) = Len(issued[r]) + 1
           /\ issued'[r][Len(issued'[r])].op = "Write"
           /\ Wrapped(frames[r]))
          => /\ under'[r] = Append(under[r], issued'[r][Len(issued'[r])])
             /\ \A i \in FramesOf(r, "Logging") :
                    frames'[r][i].statusCode = frames[r][i].statusCode]_vars

C12_Witness ==
    /\ chain[1] = <<"Logging">>
    /\ pc[1] = "handler"
    /\ issued[1] = <<HeaderCall(500), WriteCall("ok")>>
    /\ under[1] = <<HeaderCall(500), WriteCall("ok")>>
    /\ frames[1][1].statusCode = 500

\* Every context request r has had in hand so far.
ContextsOf(r) ==
    {inCtx[r], callCtx[r]}
        \cup { frames[r][i].in : i \in 1..Len(frames[r]) }
        \cup { frames[r][i].r : i \in 1..Len(frames[r]) }
        \cup { seen[r][i] : i \in 1..Len(seen[r]) }

\* What an accessor of key must return on ctx: the value of the newest layer
\* under key when that is a string, and ("", false) otherwise.
Expected(ctx, key) ==
    LET ls == { i \in 1..Len(ctx) : ctx[i].key = key }
        top == CHOOSE i \in ls : \A j \in ls : j <= i
    IN  IF ls # {} /\ ctx[top].val.kind = "string"
        THEN [val |-> ctx[top].val.val, ok |-> TRUE]
        ELSE [val |-> "", ok |-> FALSE]

\* C13: on every context of a request GetUserID and GetRequestID return
\* (v, true) exactly when the context holds the string v under their key, the
\* empty string included, and ("", false) when the key is absent or holds a
\* value that is not a string.
C13_AccessorsCheckedCast ==
    \A r \in Requests : \A ctx \in ContextsOf(r) :
        /\ GetUserID(ctx) = Expected(ctx, UserIDKey)
        /\ GetRequestID(ctx) = Expected(ctx, RequestIDKey)

C13_Witness ==
    /\ chain[1] = <<"JWT", "Logging">>
    /\ pc[1] = "handler"
    /\ inCtx[1] = <<[key |-> UserIDKey, val |-> NonStr("123")],
                    [key |-> RequestIDKey, val |-> NonStr("42")]>>
    /\ GetUserID(inCtx[1]) = [val |-> "", ok |-> FALSE]
    /\ GetRequestID(inCtx[1]) = [val |-> "", ok |-> FALSE]
    /\ GetUserID(seen[1][1]) = [val |-> "", ok |-> TRUE]
    /\ GetRequestID(<<>>) = [val |-> "", ok |-> FALSE]

\* C14 as claimed: every entry logged for a request, by the identity middleware
\* or by Logging, has a request_id field, and all the entries of one request
\* through Logging(JWT(handler)) have the same request_id.
C14_EveryEntryHasRequestID ==
    \A k \in 1..Len(log) :
        /\ "request_id" \in DOMAIN log[k].fields
        /\ \A j \in 1..Len(log) :
               (log[j].req = log[k].req /\ LoggingJWT(log[k].req)) =>
                   log[j].fields.request_id = log[k].fields.request_id

\* C15 as claimed: when extraction succeeds the identity middleware calls next
\* with a context in which GetRequestID is present: the inbound id when the
\* inbound context had one, a generated id otherwise.
C15_JWTPassesRequestID ==
    \A r \in Requests : \A i \in FramesOf(r, "JWT") :
        (CalledNext(r, i) /\ ~extracted[r][1].err) =>
            /\ GetRequestID(NextCtx(r, i)).ok
            /\ GetRequestID(frames[r][i].in).ok =>
                   GetRequestID(NextCtx(r, i)) = GetRequestID(frames[r][i].in)

\* The entries of r logged by Logging.
LoggingEntriesOf(r) ==
    EntriesOf(r, "Failed to get user ID from context") \cup EntriesOf(r, "Request completed")

\* C16 as claimed: once Logging has returned it has logged exactly one entry for
\* the request, whatever the outcome.
C16_LoggingLogsOneEntry ==
    \A r \in Requests : \A i \in FramesOf(r, "Logging") :
        Returned(r, i) => Cardinality(LoggingEntriesOf(r)) = 1

\* C16 amended: once Logging has returned it has logged one entry for the
\* request when the identity is present in its request context, and two when it
\* is absent: the warning and then the "Request completed" entry.
C16_LoggingLogsOneOrTwoEntries ==
    \A r \in Requests : \A i \in FramesOf(r, "Logging") :
        Returned(r, i) =>
            Cardinality(LoggingEntriesOf(r)) =
                (IF GetUserID(frames[r][i].r).ok THEN 1 ELSE 2)

C16_Witness ==
    /\ pc[1] = "done"
    /\ chain[1] = <<"Logging">>
    /\ inCtx[1] = <<>>
    /\ Cardinality(LoggingEntriesOf(1)) = 2
    /\ Len(log) = 2

\* C17 as claimed: a context holding a non-string value under RequestIDKey is
\* treated by Logging like one holding none: an id is generated and layered,
\* the handler's GetRequestID is present, and the "Request completed" entry's
\* request_id is that string id.
C17_MismatchedRequestIDReplaced ==
    \A r \in Requests : \A i \in FramesOf(r, "Logging") :
        (Value(frames[r][i].in, RequestIDKey) # Nil
            /\ ~GetRequestID(frames[r][i].in).ok) =>
            /\ Len(mintedFor[r]) = 1
            /\ seen[r] # <<>> => GetRequestID(seen[r][1]).ok
            /\ \A k \in EntriesOf(r, "Request completed") :
                   /\ log[k].fields.request_id.kind = "string"
                   /\ log[k].fields.request_id \in { mintedFor[r][j] : j \in 1..Len(mintedFor[r]) }

\* C18: in JWT(Logging(handler)) with an extraction of subject S, Logging is
\* entered with the identity in its context, so the "Request completed" entry has
\* user_id = S and no missing-identity warning is logged; in every chain the
\* user_id Logging logs is the one of the context it was entered with, and its
\* own request context adds at most the request-id layer to that context.
C18_LoggerSeesOuterIdentity ==
    \A r \in Requests : \A i \in FramesOf(r, "Logging") :
        /\ frames[r][i].r \in
               {frames[r][i].in,
                WithValue(frames[r][i].in, RequestIDKey, frames[r][i].requestID)}
        /\ Returned(r, i) =>
               /\ \A k \in EntriesOf(r, "Request completed") :
                      log[k].fields.user_id = GetUserID(frames[r][i].in).val
               /\ (chain[r] = <<"JWT", "Logging">> /\ ~extracted[r][1].err) =>
                      /\ EntriesOf(r, "Failed to get user ID from context") = {}
                      /\ EntriesOf(r, "Request completed") # {}
                      /\ \A k \in EntriesOf(r, "Request completed") :
                             log[k].fields.user_id = extracted[r][1].Sub

C18_Witness ==
    /\ pc[1] = "done"
    /\ chain[1] = <<"JWT", "Logging">>
    /\ inCtx[1] = <<>>
    /\ extracted[1] = <<[err |-> FALSE, Sub |-> "alice"]>>
    /\ EntriesOf(1, "Failed to get user ID from context") = {}
    /\ \E k \in EntriesOf(1, "Request completed") : log[k].fields.user_id = "alice"

\* C19: in one request through Logging(JWT(handler)) the extractor has answered
\* and the identity middleware has logged its entry before the handler starts;
\* Logging logs nothing until the handler has returned and the identity
\* middleware with it; the missing-identity warning, if any, is logged while
\* Logging has not logged its "Request completed" entry, and that single entry,
\* logged as Logging returns, is the last entry of the request.
C19_EventsNested ==
    \A r \in Requests :
        LoggingJWT(r) =>
            /\ seen[r] # <<>> =>
                   (Len(extracted[r]) = 1 /\ Cardinality(JWTEntriesOf(r)) = 1)
            /\ ~Returned(r, 2) => LoggingEntriesOf(r) = {}
            /\ ~Returned(r, 1) => EntriesOf(r, "Request completed") = {}
            /\ \A j \in JWTEntriesOf(r) : \A k \in LoggingEntriesOf(r) : j < k
            /\ Returned(r, 1) =>
                   /\ Cardinality(EntriesOf(r, "Request completed")) = 1
                   /\ \A d \in EntriesOf(r, "Request completed") :
                          \A k \in 1..Len(log) : log[k].req = r => k <= d

C19_Witness ==
    /\ pc[1] = "done"
    /\ LoggingJWT(1)
    /\ extracted[1] = <<[err |-> TRUE, Sub |-> ""]>>
    /\ inCtx[1] = <<>>
    /\ Len(log) = 3
    /\ log[1].msg = "Failed to extract JWT claims"
    /\ log[2].msg = "Failed to get user ID from context"
    /\ log[3].msg = "Request completed"

\* The contexts request r can be given from its own inbound context, the ids
\* generated for it and the subjects extracted for it.
OwnContexts(r) ==
    LET ids == { mintedFor[r][j] : j \in 1..Len(mintedFor[r]) }
        subs == { extracted[r][j].Sub : j \in { n \in 1..Len(extracted[r]) : ~extracted[r][n].err } }
        withID(cs) == cs \cup { WithValue(c, RequestIDKey, id) : c \in cs, id \in ids }
        withUser(cs) == cs \cup { WithValue(c, UserIDKey, Str(u)) : c \in cs, u \in subs }
    IN  withUser(withID({inCtx[r]})) \cup withID(withUser({inCtx[r]}))

\* The state of request r.
StateOf(r) ==
    <<pc[r], chain[r], line[r], inCtx[r], callCtx[r], frames[r], level[r], extracted[r],
      seen[r], ops[r], issued[r], under[r], mintedFor[r]>>

\* The entries of the log, in order, that request r logged.
LogOf(l, r) == SelectSeq(l, LAMBDA e : e.req = r)

\* C20: with two requests interleaved on one Middleware, each "Request
\* completed" entry carries its own request's request id, status, method, path
\* and identity, every context of a request is built from that request's own
\* inbound context, id and subject, generated ids are never shared, and a step
\* of one request leaves the other's state and log entries as they were.
C20_RequestsIsolated ==
    /\ [](\A r \in Requests :
            /\ ContextsOf(r) \subseteq OwnContexts(r)
            /\ \A q \in Requests \ {r} : \A j \in 1..Len(mintedFor[r]) :
                   \A n \in 1..Len(mintedFor[q]) : mintedFor[r][j] # mintedFor[q][n]
            /\ \A i \in FramesOf(r, "Logging") :
                   \A k \in EntriesOf(r, "Request completed") :
                       /\ log[k].fields.request_id = Value(frames[r][i].r, RequestIDKey)
                       /\ log[k].fields.status = LastWrittenStatus(issued[r])
                       /\ log[k].fields.method = line[r].Method
                       /\ log[k].fields.path = EscapedPath(line[r].URL)
                       /\ log[k].fields.user_id = GetUserID(frames[r][i].r).val)
    /\ [][\E r \in Requests : \A q \in Requests \ {r} :
              /\ StateOf(q)' = StateOf(q)
              /\ LogOf(log', q) = LogOf(log, q)]_vars

C20_Witness ==
    /\ pc[1] = "done" /\ pc[2] = "done"
    /\ Len(mintedFor[1]) = 1 /\ Len(mintedFor[2]) = 1
    /\ chain[2] = <<"JWT", "Logging">>
    /\ extracted[2] = <<[err |-> FALSE, Sub |-> "alice"]>>
    /\ LastWrittenStatus(issued[1]) # LastWrittenStatus(issued[2])
    /\ \E k \in EntriesOf(1, "Request completed"), j \in EntriesOf(2, "Request completed") :
           /\ j < k
           /\ \E w \in EntriesOf(1, "Failed to get user ID from context") : w < j
           /\ log[k].fields.user_id = "" /\ log[j].fields.user_id = "alice"
           /\ log[k].fields.status # log[j].fields.status
           /\ log[k].fields.request_id # log[j].fields.request_id

\* ctx is parent or a context derived from it by layering.
DerivedFrom(ctx, parent) ==
    /\ Len(parent) <= Len(ctx)
    /\ SubSeq(ctx, 1, Len(parent)) = parent

\* C21: a middleware never changes the context it was entered with: the
\* caller's inbound context and every middleware's inbound context answer
\* lookups of the identity and request-id keys as they did on entry, whatever
\* step is taken; what a middleware hands on is that context or one derived
\* from it by layering; and Logging entered with a context that carries a
\* request id hands on that very context.
C21_ContextsNotMutated ==
    /\ [](\A r \in Requests : \A i \in 1..Len(frames[r]) :
            /\ DerivedFrom(frames[r][i].in, inCtx[r])
            /\ DerivedFrom(frames[r][i].r, frames[r][i].in)
            /\ CalledNext(r, i) =>
                   /\ DerivedFrom(NextCtx(r, i), frames[r][i].in)
                   /\ (frames[r][i].mw = "Logging"
                         /\ Value(frames[r][i].in, RequestIDKey) # Nil) =>
                          NextCtx(r, i) = frames[r][i].in)
    /\ [][\A r \in Requests : pc[r] # "idle" =>
              /\ inCtx'[r] = inCtx[r]
              /\ \A k \in {UserIDKey, RequestIDKey} :
                     Value(inCtx'[r], k) = Value(inCtx[r], k)
              /\ \A i \in 1..Len(frames[r]) : \A k \in {UserIDKey, RequestIDKey} :
                     /\ Len(frames'[r]) >= i
                     /\ Value(frames'[r][i].in, k) = Value(frames[r][i].in, k)]_vars

C21_Witness ==
    /\ pc[1] = "done"
    /\ chain[1] = <<"Logging", "JWT">>
    /\ inCtx[1] = <<[key |-> RequestIDKey, val |-> Str("existing-request-id")]>>
    /\ extracted[1] = <<[err |-> FALSE, Sub |-> "alice"]>>
    /\ frames[1][2].in = inCtx[1]
    /\ ~GetUserID(inCtx[1]).ok
    /\ GetUserID(seen[1][1]) = [val |-> "alice", ok |-> TRUE]
    /\ GetRequestID(seen[1][1]) = GetRequestID(inCtx[1])

\* C22: a handler run ends by returning or by panicking, and a panic is not
\* recovered: it leaves no frame of Logging or JWTMiddleware active, the request
\* never resumes, and Logging has logged and will log neither the
\* missing-identity warning nor the "Request completed" entry for it.
C22_PanicPropagates ==
    /\ [](\A r \in Requests : pc[r] = "panicked" =>
            /\ level[r] = 0
            /\ LoggingEntriesOf(r) = {})
    /\ [][\A r \in Requests :
              /\ pc[r] = "handler" => pc'[r] \in {"handler", "return", "panicked"}
              /\ pc[r] = "panicked" =>
                     (pc'[r] = "panicked" /\ LogOf(log', r) = LogOf(log, r))]_vars

C22_Witness ==
    /\ pc[1] = "panicked"
    /\ chain[1] = <<"Logging", "JWT">>
    /\ Len(frames[1]) = 2
    /\ level[1] = 0
    /\ Len(issued[1]) = 1
    /\ Len(log) = 1
    /\ log[1].msg = "Failed to extract JWT claims"

\* C23: JWTAPIGatewayMiddleware calls the wrapped handler exactly once; entered
\* with a context whose requestContext value is an APIGatewayV2AuthorizerContext
\* it hands the handler that context with the payload's subject layered as the
\* user id, and entered with no such value, or one of another type, it hands
\* the handler the context it was entered with.
C23_GatewayIdentity ==
    \A r \in Requests : \A i \in FramesOf(r, "APIGateway") :
        LET in == frames[r][i].in
            claims == Value(in, requestContext)
        IN  /\ Len(seen[r]) <= 1
            /\ pc[r] = "call" => NextMiddleware(r) = "handler"
            /\ pc[r] # "call" => Len(seen[r]) = 1
            /\ CalledNext(r, i) =>
                   IF claims.kind = "APIGatewayV2AuthorizerContext"
                   THEN /\ NextCtx(r, i) = WithValue(in, userIDKey, Str(claims.val))
                        /\ GetUserID(NextCtx(r, i)) = [val |-> claims.val, ok |-> TRUE]
                   ELSE /\ NextCtx(r, i) = in
                        /\ GetUserID(NextCtx(r, i)) = GetUserID(in)

C23_Witness ==
    /\ pc[1] = "done"
    /\ chain[1] = <<"APIGateway">>
    /\ inCtx[1] = <<[key |-> requestContext, val |-> APIGatewayV2AuthorizerContext("alice")]>>
    /\ Len(seen[1]) = 1
    /\ ~GetUserID(inCtx[1]).ok
    /\ GetUserID(seen[1][1]) = [val |-> "alice", ok |-> TRUE]

====
